---- MODULE Spec2Model ----
(***************************************************************************)
(* Model of e2e_test/iceberg/main.py: the typed row verifier               *)
(* (verify_result), the table equivalence checker (compare_sql), the lazy  *)
(* Spark session (get_spark) and the __main__ pipeline.                    *)
(*                                                                         *)
(* Python values are records tagged by k:                                  *)
(*   null | int | bool | str | float | date | dt | dec | list | text       *)
(* A float is the IEEE double written n*10^-9 + eps*tiny, eps in {-1,0,1}  *)
(* being the sign of the binary representation error of the double.        *)
(* A datetime (dt) is a wall clock in hours plus, when zone-aware, its UTC *)
(* offset in hours.  A Decimal is coefficient c times 10^e.                *)
(* A text is a sequence of tokens: NL, COMMA, or a chunk of field text.    *)
(***************************************************************************)
EXTENDS Integers, Sequences, FiniteSets, TLC

\* ------------------------------------------------------------------ bounds
MaxRows == 2
MaxCols == 2
MaxCmpRows == 2
MaxSqls == 1

\* ------------------------------------------------------------ Python values
None == [k |-> "null"]
I(n) == [k |-> "int", v |-> n]
B(b) == [k |-> "bool", v |-> b]
S(s) == [k |-> "str", v |-> s]
F(n, eps) == [k |-> "float", n |-> n, eps |-> eps]
D(ord) == [k |-> "date", v |-> ord]
Aware(wall, off) == [k |-> "dt", wall |-> wall, aware |-> TRUE, off |-> off]
Naive(wall) == [k |-> "dt", wall |-> wall, aware |-> FALSE, off |-> 0]
Dec(c, e) == [k |-> "dec", c |-> c, e |-> e]
L(seq) == [k |-> "list", v |-> seq]
Text(toks) == [k |-> "text", t |-> toks]

NL == "\n"
COMMA == ","

\* A call either returns a value or raises.
Ok(v) == [ok |-> TRUE, v |-> v]
Raise(exc) == [ok |-> FALSE, exc |-> exc]

\* ------------------------------------------------------- numeric equality
IsNum(a) == a.k \in {"int", "bool", "float", "dec"}

\* The exact value of a number as c * 10^e + eps * tiny.
NumVal(a) ==
  CASE a.k = "int" -> [c |-> a.v, e |-> 0, eps |-> 0]
    [] a.k = "bool" -> [c |-> IF a.v THEN 1 ELSE 0, e |-> 0, eps |-> 0]
    [] a.k = "float" -> [c |-> a.n, e |-> -9, eps |-> a.eps]
    [] a.k = "dec" -> [c |-> a.c, e |-> a.e, eps |-> 0]

\* Trailing zeros of the coefficient moved into the exponent (up to e = 0).
RECURSIVE NumNorm(_)
NumNorm(x) ==
  IF x.c = 0 THEN [x EXCEPT !.e = 0]
  ELSE IF x.e < 0 /\ x.c % 10 = 0
       THEN NumNorm([x EXCEPT !.c = x.c \div 10, !.e = x.e + 1])
       ELSE x

\* Equality of representation, 10.00 and 10.0 differing (mutation of PyEq).
PyEq_Structural(a, b) == IF a.k # b.k THEN FALSE ELSE a = b

\* Python's a == b on the values of the model.
PyEq(a, b) ==
  IF IsNum(a) /\ IsNum(b) THEN NumNorm(NumVal(a)) = NumNorm(NumVal(b))
  ELSE IF a.k # b.k THEN FALSE
  ELSE CASE a.k = "null" -> TRUE
         [] a.k = "str" -> a.v = b.v
         [] a.k = "date" -> a.v = b.v
         [] a.k = "dt" ->
              IF a.aware # b.aware THEN FALSE
              ELSE a.wall - a.off = b.wall - b.off
         [] OTHER -> a = b

\* ------------------------------------------------------- literal parsers
\* int(v)
StrToInt(v) ==
  CASE v = "1" -> Ok(I(1))
    [] v = "2" -> Ok(I(2))
    [] v = "02" -> Ok(I(2))
    [] v = "3" -> Ok(I(3))
    [] v = "0" -> Ok(I(0))
    [] OTHER -> Raise("ValueError")

\* float(v): the double nearest to the decimal literal.
StrToFloat(v) ==
  CASE v = "1.000005" -> Ok(F(1000005000, 1))
    [] v = "1.000004999" -> Ok(F(1000004999, -1))
    [] v = "1.000001" -> Ok(F(1000001000, -1))
    [] v = "1.00001" -> Ok(F(1000010000, 1))
    [] v = "1.0" -> Ok(F(1000000000, 0))
    [] v = "1" -> Ok(F(1000000000, 0))
    [] v = "2.000005" -> Ok(F(2000005000, -1))
    [] v = "0.015625" -> Ok(F(15625000, 0))
    [] v = "0.01562" -> Ok(F(15620000, 1))
    [] v = "0.01563" -> Ok(F(15630000, 1))
    [] OTHER -> Raise("ValueError")

\* v.lower()
Lower(v) ==
  CASE v = "TRUE" -> "true"
    [] v = "True" -> "true"
    [] v = "FALSE" -> "false"
    [] v = "False" -> "false"
    [] OTHER -> v

strtobool(v) == B(Lower(v) = "true")

\* date.fromisoformat(v): days are numbered from 2022-03-10.
FromIsoDate(v) ==
  CASE v = "2022-03-11" -> Ok(D(1))
    [] v = "2022-03-12" -> Ok(D(2))
    [] OTHER -> Raise("ValueError")

strtodate(v) == FromIsoDate(v)

\* datetime.fromisoformat(v): hours are numbered from 2022-03-12 00:00.
FromIsoDatetime(v) ==
  CASE v = "2022-03-12 01:00:00" -> Ok(Naive(1))
    [] v = "2022-03-12T01:00:00" -> Ok(Naive(1))
    [] v = "2022-03-12 09:00:00" -> Ok(Naive(9))
    [] v = "2022-03-12 01:00:00+00:00" -> Ok(Aware(1, 0))
    [] v = "2022-03-12 09:00:00+08:00" -> Ok(Aware(9, 8))
    [] OTHER -> Raise("ValueError")

\* decimal.Decimal(v)
StrToDecimal(v) ==
  CASE v = "10.0" -> Ok(Dec(100, -1))
    [] v = "10.00" -> Ok(Dec(1000, -2))
    [] v = "10.01" -> Ok(Dec(1001, -2))
    [] v = "0" -> Ok(Dec(0, 0))
    [] v = "1" -> Ok(Dec(1, 0))
    [] OTHER -> Raise("InvalidOperation")

\* --------------------------------------------------------------- rounding
RECURSIVE Pow10(_)
Pow10(n) == IF n <= 0 THEN 1 ELSE 10 * Pow10(n - 1)

\* The digits after the fifth are cut off (mutation of HalfEven).
HalfEven_Truncate(c, e, eps) == c \div Pow10(-5 - e)

\* c * 10^e + eps * tiny rounded half-even to a multiple of 10^-5 (e < -5):
\* the multiple's coefficient.
HalfEven(c, e, eps) ==
  LET d == Pow10(-5 - e)
      q == c \div d
      r == c % d
  IN  IF 2 * r > d \/ (2 * r = d /\ eps > 0) \/ (2 * r = d /\ eps = 0 /\ q % 2 = 1)
      THEN q + 1
      ELSE q

\* round(x, 5).  A float is rounded on its exact binary value and the result
\* is the double nearest to q * 10^-5, exact iff q * 10^-5 is dyadic; the
\* sign of an inexact result's error is not tracked (equality never reads it).
Round5(x) ==
  CASE x.k = "float" ->
         LET q == HalfEven(x.n, -9, x.eps)
         IN  Ok(F(q * 10000, IF q % 3125 = 0 THEN 0 ELSE 1))
    [] x.k = "int" -> Ok(x)
    [] x.k = "bool" -> Ok(I(IF x.v THEN 1 ELSE 0))
    [] x.k = "dec" ->
         IF x.e >= -5 THEN Ok(x) ELSE Ok(Dec(HalfEven(x.c, x.e, 0), -5))
    [] OTHER -> Raise("TypeError")

\* ------------------------------------------------------------- datetimes
\* x.astimezone(timezone.utc): a naive datetime is taken as the process's
\* local time, tz hours ahead of UTC.
AsTimezoneUtc(x, tz) ==
  IF x.k # "dt" THEN Raise("AttributeError")
  ELSE IF x.aware THEN Ok(Aware(x.wall - x.off, 0))
  ELSE Ok(Aware(x.wall - tz, 0))

\* x.replace(tzinfo=None)
ReplaceTzNone(x) == Naive(x.wall)

Bind(r, Op(_)) == IF r.ok THEN Op(r.v) ELSE r

strtots(v, tz) ==
  Bind(Bind(FromIsoDatetime(v), LAMBDA d : AsTimezoneUtc(d, tz)),
       LAMBDA u : Ok(ReplaceTzNone(u)))

\* ------------------------------------------------------------------ text
Last(s) == s[Len(s)]
Front(s) == SubSeq(s, 1, Len(s) - 1)

\* The segments of toks between the sep tokens (one more than the seps).
RECURSIVE SplitOn(_, _)
SplitOn(toks, sep) ==
  IF toks = <<>> THEN << <<>> >>
  ELSE LET rest == SplitOn(Tail(toks), sep)
       IN  IF Head(toks) = sep THEN << <<>> >> \o rest
           ELSE << <<Head(toks)>> \o Head(rest) >> \o Tail(rest)

\* verify_data.splitlines()
SplitLines(toks) ==
  IF toks = <<>> THEN <<>>
  ELSE LET parts == SplitOn(toks, NL)
       IN  IF Last(parts) = <<>> THEN Front(parts) ELSE parts

RECURSIVE Concat(_)
Concat(chunks) == IF chunks = <<>> THEN "" ELSE Head(chunks) \o Concat(Tail(chunks))

\* row2.split(",")
SplitComma(line) ==
  LET parts == SplitOn(line, COMMA)
  IN  [i \in 1..Len(parts) |-> Concat(parts[i])]

\* ------------------------------------------------------------ comparison
\* row[idx], idx counted from 0
Index(row, idx) == IF idx < Len(row) THEN Ok(row[idx + 1]) ELSE Raise("IndexError")

CellResult(kind, first, second, parsed, compared) ==
  [kind |-> kind, first |-> first, second |-> second,
   parsed |-> parsed, compared |-> compared]

\* tc.assertEqual(first, second), the arguments evaluated left to right;
\* parsed says whether evaluating second called a literal parser.
AssertEqual(first, second, parsed) ==
  IF ~first.ok THEN CellResult(first.exc, None, None, FALSE, FALSE)
  ELSE IF ~second.ok THEN CellResult(second.exc, first.v, None, parsed, FALSE)
  ELSE IF PyEq(first.v, second.v) THEN CellResult("pass", first.v, second.v, parsed, TRUE)
  ELSE CellResult("ValueMismatch", first.v, second.v, parsed, TRUE)

\* The unsupported tag is passed over (mutation of Unsupported).
Unsupported_Ignored(ty) == CellResult("pass", None, None, FALSE, FALSE)

\* tc.fail(f"Unsupported type {ty}")
Unsupported(ty) == CellResult("UnsupportedType", None, None, FALSE, FALSE)

\* The body of the loop over verify_schema for one column.
CompareCell(ty, row1, row2, idx, tz) ==
  LET a == Index(row1, idx)
      lit == Index(row2, idx)
      p == a.ok /\ lit.ok
  IN  CASE ty \in {"int", "long"} ->
             AssertEqual(a, Bind(lit, StrToInt), p)
        [] ty \in {"float", "double"} ->
             LET ra == Bind(a, Round5)
             IN  AssertEqual(ra, Bind(Bind(lit, StrToFloat), Round5), ra.ok /\ lit.ok)
        [] ty = "boolean" ->
             AssertEqual(a, Bind(lit, LAMBDA v : Ok(strtobool(v))), p)
        [] ty = "date" ->
             AssertEqual(a, Bind(lit, strtodate), p)
        [] ty = "timestamp" ->
             LET ua == Bind(Bind(a, LAMBDA x : AsTimezoneUtc(x, tz)),
                            LAMBDA u : Ok(ReplaceTzNone(u)))
             IN  AssertEqual(ua, Bind(lit, LAMBDA v : strtots(v, tz)), ua.ok /\ lit.ok)
        [] ty = "timestamp_ntz" ->
             AssertEqual(a, Bind(lit, FromIsoDatetime), p)
        [] ty = "string" ->
             AssertEqual(a, Bind(lit, LAMBDA v : Ok(S(v))), FALSE)
        [] ty = "decimal" ->
             IF ~lit.ok THEN CellResult(lit.exc, None, None, FALSE, FALSE)
             ELSE IF lit.v = "none"
             THEN IF ~a.ok THEN CellResult(a.exc, None, None, FALSE, FALSE)
                  ELSE CellResult(IF a.v.k = "null" THEN "pass" ELSE "ValueMismatch",
                                  a.v, None, FALSE, TRUE)
             ELSE AssertEqual(a, StrToDecimal(lit.v), a.ok)
        [] OTHER -> Unsupported(ty)

\* --------------------------------------------------------------- exceptAll
RECURSIVE RemoveOne(_, _)
RemoveOne(s, x) ==
  IF s = <<>> THEN <<>>
  ELSE IF Head(s) = x THEN Tail(s)
  ELSE <<Head(s)>> \o RemoveOne(Tail(s), x)

InSeq(s, x) == \E i \in 1..Len(s) : s[i] = x

\* The rows of a that are no row of b, duplicates not counted (mutation of
\* ExceptAll: except in place of exceptAll).
ExceptAll_Distinct(a, b) == SelectSeq(a, LAMBDA x : ~InSeq(b, x))

\* df1.exceptAll(df2).collect(): the rows of a that remain after each row
\* of b has cancelled one equal row of a.
RECURSIVE ExceptAll(_, _)
ExceptAll(a, b) ==
  IF a = <<>> THEN <<>>
  ELSE IF InSeq(b, Head(a)) THEN ExceptAll(Tail(a), RemoveOne(b, Head(a)))
  ELSE <<Head(a)>> \o ExceptAll(Tail(a), b)

\* ------------------------------------------------------------------ inputs
Tags == {"int", "long", "float", "double", "boolean", "date", "timestamp",
         "timestamp_ntz", "string", "decimal"}
BadTag == "uuid"

\* The process's local UTC offsets considered, in hours.
TimeZones == {0, 8}

\* Values a query may return in one column, and literals an expected text may
\* hold there, per declared tag.
ActualPool(ty) ==
  CASE ty \in {"int", "long"} -> {I(1), I(2), I(3), B(TRUE), None}
    [] ty \in {"float", "double"} ->
         {F(1000004999, -1), F(1000000000, 0), F(1000010000, 1), F(15625000, 0), I(1), None}
    [] ty = "boolean" -> {B(TRUE), B(FALSE), None}
    [] ty = "date" -> {D(1), D(2), None}
    [] ty = "timestamp" -> {Aware(1, 0), Aware(9, 8), Aware(9, 0), Naive(1), Naive(9), None}
    [] ty = "timestamp_ntz" -> {Naive(1), Naive(9), Aware(1, 0), None}
    [] ty = "string" -> {S("foo"), S("bar"), S(""), None}
    [] ty = "decimal" -> {Dec(1000, -2), Dec(100, -1), Dec(1001, -2), Dec(0, 0), I(0), None}
    [] OTHER -> {S("foo"), None}

LiteralPool(ty) ==
  CASE ty \in {"int", "long"} -> {"1", "2", "02", "3", "foo"}
    [] ty \in {"float", "double"} ->
         {"1.000005", "1.000004999", "1.000001", "1.00001", "1.0", "0.01562", "0.01563", "foo"}
    [] ty = "boolean" -> {"true", "True", "false", "yes"}
    [] ty = "date" -> {"2022-03-11", "2022-03-12", "foo"}
    [] ty \in {"timestamp", "timestamp_ntz"} ->
         {"2022-03-12 01:00:00", "2022-03-12T01:00:00", "2022-03-12 09:00:00",
          "2022-03-12 01:00:00+00:00", "2022-03-12 09:00:00+08:00", "foo"}
    [] ty = "string" -> {"foo", "bar", ""}
    [] ty = "decimal" -> {"none", "None", "10.0", "10.00", "10.01", "0", "foo"}
    [] OTHER -> {"foo"}

\* A matching and a non-matching <<actual, literal>> pair per tag, for the
\* schemas of several columns.
GoodCell(ty) ==
  CASE ty \in {"int", "long"} -> <<I(1), "1">>
    [] ty \in {"float", "double"} -> <<F(1000004999, -1), "1.000001">>
    [] ty = "boolean" -> <<B(TRUE), "True">>
    [] ty = "date" -> <<D(1), "2022-03-11">>
    [] ty = "timestamp" -> <<Aware(9, 8), "2022-03-12 01:00:00+00:00">>
    [] ty = "timestamp_ntz" -> <<Naive(1), "2022-03-12T01:00:00">>
    [] ty = "string" -> <<S("foo"), "foo">>
    [] ty = "decimal" -> <<Dec(1000, -2), "10.0">>
    [] OTHER -> <<S("foo"), "foo">>

BadCell(ty) ==
  CASE ty \in {"int", "long"} -> <<I(3), "2">>
    [] ty \in {"float", "double"} -> <<F(1000004999, -1), "1.000005">>
    [] ty = "boolean" -> <<B(TRUE), "yes">>
    [] ty = "date" -> <<D(1), "2022-03-12">>
    [] ty = "timestamp" -> <<Aware(9, 0), "2022-03-12 01:00:00+00:00">>
    [] ty = "timestamp_ntz" -> <<Naive(1), "2022-03-12 01:00:00+00:00">>
    [] ty = "string" -> <<S("bar"), "foo">>
    [] ty = "decimal" -> <<I(0), "none">>
    [] OTHER -> <<S("bar"), "foo">>

\* The tags of the schemas of several columns.
MultiTags == {"int", "double", "string", "timestamp", BadTag}

SeqsUpTo(set, n) == UNION {[1..m -> set] : m \in 0..n}

\* The text of a field, of a line and of a dataset, as tokens.
FieldToks(lit) == IF lit = "" THEN <<>> ELSE <<lit>>

RECURSIVE JoinToks(_, _)
JoinToks(parts, sep) ==
  IF parts = <<>> THEN <<>>
  ELSE IF Len(parts) = 1 THEN Head(parts)
  ELSE Head(parts) \o <<sep>> \o JoinToks(Tail(parts), sep)

LineToks(lits) == JoinToks([i \in 1..Len(lits) |-> FieldToks(lits[i])], COMMA)
DataToks(litRows) == JoinToks([i \in 1..Len(litRows) |-> LineToks(litRows[i])], NL)

VerifyInput(schema, df, toks) == [schema |-> schema, df |-> df, text |-> toks]

\* One row, one column: every tag with every actual value and literal.
SingleInputs ==
  UNION {{VerifyInput(<<ty>>, << <<a>> >>, DataToks(<< <<lit>> >>) \o trail) :
            a \in ActualPool(ty), lit \in LiteralPool(ty), trail \in {<<>>, <<NL>>}} :
         ty \in Tags \cup {BadTag}}

\* Equal row counts, several rows and columns: each cell matching or not.
Cells(schema, n) == (0..(n - 1)) \X (0..(Len(schema) - 1))

MultiInputs ==
  UNION {{LET cell(i, j) == IF <<i - 1, j - 1>> \in bad THEN BadCell(schema[j])
                            ELSE GoodCell(schema[j])
          IN  VerifyInput(schema,
                          [i \in 1..n |-> [j \in 1..Len(schema) |-> cell(i, j)[1]]],
                          DataToks([i \in 1..n |-> [j \in 1..Len(schema) |-> cell(i, j)[2]]])) :
            bad \in {b \in SUBSET Cells(schema, n) : Cardinality(b) <= 2}} :
         schema \in SeqsUpTo(MultiTags, MaxCols), n \in 0..MaxRows}

\* Matching rows of the schema's tags: n of them, each short by cut columns.
GoodFrame(schema, n, cut) ==
  [i \in 1..n |-> [j \in 1..(Len(schema) - cut) |-> GoodCell(schema[j])[1]]]
GoodData(schema, n, cut) ==
  DataToks([i \in 1..n |-> [j \in 1..(Len(schema) - cut) |-> GoodCell(schema[j])[2]]])

\* Any row counts, equal or not, with and without a final newline.
CountInputs ==
  {VerifyInput(schema, GoodFrame(schema, na, 0), GoodData(schema, ne, 0) \o trail) :
     schema \in SeqsUpTo(MultiTags, MaxCols), na \in 0..MaxRows, ne \in 0..MaxRows,
     trail \in {<<>>, <<NL>>}}

\* Rows with fewer fields than the schema has columns.
ShortInputs ==
  {VerifyInput(schema, GoodFrame(schema, 1, ca), GoodData(schema, 1, ce)) :
     schema \in SeqsUpTo(MultiTags, MaxCols) \ {<<>>}, ca \in {0, 1}, ce \in {0, 1}}

VerifyInputs == SingleInputs \cup MultiInputs \cup CountInputs \cup ShortInputs

\* Rows and result sets of the two queries of compare_sql.
CmpRows == {<<S("a"), I(1)>>, <<S("b"), I(2)>>, <<None, I(1)>>}
CmpFrames == SeqsUpTo(CmpRows, MaxCmpRows)

SqlLists == SeqsUpTo({"sql"}, MaxSqls)

\* A test case file: each optional key is absent (None), the empty string,
\* or a value; verify_schema, cmp_sqls and drop_sqls may be lists.
MainSchema == <<"int", "string">>
MainData == <<"1", COMMA, "foo", NL, "2", COMMA, "bar">>
MainFrames ==
  {<< <<I(1), S("foo")>>, <<I(2), S("bar")>> >>,
   << <<I(1), S("foo")>>, <<I(3), S("bar")>> >>,
   << <<I(1), S("foo")>> >>}

MainCmpFrames ==
  {<< <<S("a"), I(1)>> >>, << <<S("a"), I(1)>>, <<S("a"), I(1)>> >>}

\* verify_schema, verify_sql and verify_data: all given, or one of them
\* absent, empty, or (the schema) an empty list.
VerifyKeys ==
  LET full == [verify_schema |-> L(MainSchema), verify_sql |-> S("select"),
               verify_data |-> Text(MainData)]
  IN  {full}
      \cup {[full EXCEPT !.verify_schema = x] : x \in {None, S(""), L(<<>>)}}
      \cup {[full EXCEPT !.verify_sql = x] : x \in {None, S("")}}
      \cup {[full EXCEPT !.verify_data = x] : x \in {None, Text(<<>>)}}

TestCases ==
  {[init_sqls |-> L(i), slt |-> s, verify_schema |-> v.verify_schema,
    verify_sql |-> v.verify_sql, verify_data |-> v.verify_data, verify_slt |-> vs,
    cmp_sqls |-> c, drop_sqls |-> d] :
     i \in SqlLists, s \in {None, S(""), S("a.slt")}, v \in VerifyKeys,
     vs \in {None, S(""), S("b.slt")},
     c \in {None, S("")} \cup {L(q) : q \in SeqsUpTo({"sql"}, 3)},
     d \in {S("")} \cup {L(q) : q \in SqlLists}}

NoCase == [k |-> "null"]

\* x is not None and x != ""
Present(x) ==
  /\ x.k # "null"
  /\ ~(x.k = "str" /\ x.v = "")
  /\ ~(x.k = "text" /\ x.t = <<>>)

\* len(x)
PyLen(x) == CASE x.k = "list" -> Len(x.v) [] x.k = "str" -> Len(x.v) [] x.k = "text" -> Len(x.t)

\* ------------------------------------------------------------------- state
VARIABLES
  entry,        \* "main": run as a script; "import": its functions are called
  tz,           \* the process's local UTC offset, hours
  g_spark,      \* the global session: 0 is None, else the session's identity
  created,      \* sessions created so far
  step,         \* position of __main__
  tcase,        \* the loaded test case
  log,          \* __main__: the calls made so far, with how each ended
  pc,           \* "idle", in a call ("verify"), or a call just ended ("ret", "exc")
  fn,           \* the function called
  verify_schema, verify_data, df, rows,   \* verify_result's arguments and locals
  ri, ci,       \* verify_result's loop position: row and column, from 0
  nCompared,    \* equality assertions evaluated by this call
  nParsed,      \* literal parsers called by this call
  df1, df2,     \* compare_sql's result sets
  issued,       \* statements this call sent to the session
  err           \* how the call ended

vars == <<entry, tz, g_spark, created, step, tcase, log, pc, fn, verify_schema,
          verify_data, df, rows, ri, ci, nCompared, nParsed, df1, df2, issued, err>>

NoErr == [kind |-> "none"]
Success == [kind |-> "ok"]

ClearLocals ==
  /\ verify_schema' = <<>>
  /\ verify_data' = <<>>
  /\ df' = <<>>
  /\ rows' = <<>>
  /\ ri' = 0
  /\ ci' = 0
  /\ nCompared' = 0
  /\ nParsed' = 0
  /\ df1' = <<>>
  /\ df2' = <<>>

Init ==
  /\ entry \in {"main", "import"}
  /\ tz \in TimeZones
  /\ g_spark = 0
  /\ created = 0
  /\ step = IF entry = "main" THEN "load" ELSE "off"
  /\ tcase = NoCase
  /\ log = <<>>
  /\ pc = "idle"
  /\ fn = "none"
  /\ verify_schema = <<>>
  /\ verify_data = <<>>
  /\ df = <<>>
  /\ rows = <<>>
  /\ ri = 0
  /\ ci = 0
  /\ nCompared = 0
  /\ nParsed = 0
  /\ df1 = <<>>
  /\ df2 = <<>>
  /\ issued = <<>>
  /\ err = NoErr

\* ---------------------------------------------------------------- get_spark
\* A session is created by every call (mutation of get_spark).
get_spark_Always(g, n) == [spark |-> n + 1, created |-> n + 1]

\* The session get_spark returns and the sessions created after the call.
get_spark(g, n) == IF g = 0 THEN [spark |-> n + 1, created |-> n + 1]
                   ELSE [spark |-> g, created |-> n]

GetSpark ==
  /\ g_spark' = get_spark(g_spark, created).spark
  /\ created' = get_spark(g_spark, created).created

\* A call of function f begins.
Enter(f) ==
  /\ pc = "idle"
  /\ fn' = f

\* spark.sql(sql) for each sql in sqls; good statements succeed, the next one
\* (if any) raises.
RunSqls(sqls, good) ==
  /\ issued' = SubSeq(sqls, 1, IF good < Len(sqls) THEN good + 1 ELSE good)
  /\ IF good < Len(sqls)
     THEN pc' = "exc" /\ err' = [kind |-> "EngineError"]
     ELSE pc' = "ret" /\ err' = Success

\* ------------------------------------------------------- init_iceberg_table
init_iceberg_table(init_sqls) ==
  /\ Enter("init_iceberg_table")
  /\ GetSpark
  /\ \E good \in 0..Len(init_sqls) : RunSqls(init_sqls, good)
  /\ ClearLocals

\* --------------------------------------------------------------- drop_table
drop_table(drop_sqls) ==
  /\ Enter("drop_table")
  /\ GetSpark
  /\ \E good \in 0..Len(drop_sqls) : RunSqls([i \in 1..Len(drop_sqls) |-> "drop"], good)
  /\ ClearLocals

\* -------------------------------------------------------------- execute_slt
\* subprocess.run(..., check=True) raises when the workload run fails.
execute_slt(slt, which) ==
  /\ Enter(which)
  /\ IF slt.k = "null" \/ (slt.k = "str" /\ slt.v = "")
     THEN pc' = "ret" /\ err' = Success /\ issued' = <<>>
     ELSE \E passed \in BOOLEAN :
            /\ issued' = <<"sqllogictest">>
            /\ IF passed THEN pc' = "ret" /\ err' = Success
               ELSE pc' = "exc" /\ err' = [kind |-> "WorkloadError"]
  /\ ClearLocals
  /\ UNCHANGED <<g_spark, created>>

\* ------------------------------------------------------------ verify_result
\* zip() pairs the rows without the count being asserted (mutation of
\* RowCountOk).
RowCountOk_Unchecked(actual, expected) == TRUE

\* tc.assertEqual(len(df), len(rows))
RowCountOk(actual, expected) == Len(actual) = Len(expected)

\* Only the first column of each row is compared (mutation of Advance).
Advance_RowOnly(r, c, ncols) == <<r + 1, 0>>

\* The loop position after (r, c): the next column, then the next row.
Advance(r, c, ncols) == IF c + 1 < ncols THEN <<r, c + 1>> ELSE <<r + 1, 0>>

\* Lines 57-64: the query, splitlines and the row count assertion; result is
\* what spark.sql(verify_sql).collect() gives.
verify_result(schema, data, result) ==
  /\ Enter("verify_result")
  /\ GetSpark
  /\ issued' = <<"verify_sql">>
  /\ verify_schema' = schema
  /\ verify_data' = data
  /\ ri' = 0 /\ ci' = 0 /\ nCompared' = 0 /\ nParsed' = 0
  /\ df1' = <<>> /\ df2' = <<>>
  /\ IF ~result.ok
     THEN /\ df' = <<>> /\ rows' = <<>>
          /\ pc' = "exc" /\ err' = [kind |-> result.exc]
     ELSE /\ df' = result.v
          /\ rows' = SplitLines(data)
          /\ IF ~RowCountOk(result.v, SplitLines(data))
             THEN /\ pc' = "exc"
                  /\ err' = [kind |-> "RowCountMismatch", first |-> Len(result.v),
                             second |-> Len(SplitLines(data))]
             ELSE IF Len(result.v) = 0 \/ Len(schema) = 0
             THEN pc' = "ret" /\ err' = Success
             ELSE pc' = "verify" /\ err' = NoErr

\* Lines 65-92: one pass of the loop over verify_schema for row ri.
VerifyValue ==
  /\ pc = "verify"
  /\ LET r == CompareCell(verify_schema[ci + 1], df[ri + 1], SplitComma(rows[ri + 1]), ci, tz)
     IN  /\ nCompared' = nCompared + (IF r.compared THEN 1 ELSE 0)
         /\ nParsed' = nParsed + (IF r.parsed THEN 1 ELSE 0)
         /\ IF r.kind # "pass"
            THEN /\ pc' = "exc"
                 /\ err' = [kind |-> r.kind, row |-> ri, col |-> ci,
                            tag |-> verify_schema[ci + 1],
                            first |-> r.first, second |-> r.second]
                 /\ UNCHANGED <<ri, ci>>
            ELSE IF Advance(ri, ci, Len(verify_schema))[1] < Len(df)
            THEN /\ ri' = Advance(ri, ci, Len(verify_schema))[1]
                 /\ ci' = Advance(ri, ci, Len(verify_schema))[2]
                 /\ UNCHANGED <<pc, err>>
            ELSE /\ pc' = "ret" /\ err' = Success
                 /\ UNCHANGED <<ri, ci>>
  /\ UNCHANGED <<entry, tz, g_spark, created, step, tcase, log, fn, verify_schema,
                 verify_data, df, rows, df1, df2, issued>>

\* -------------------------------------------------------------- compare_sql
\* r1 and r2 are what the two queries give.
compare_sql(cmp_sqls, r1, r2) ==
  /\ Enter("compare_sql")
  /\ verify_schema' = <<>> /\ verify_data' = <<>> /\ df' = <<>> /\ rows' = <<>>
  /\ ri' = 0 /\ ci' = 0 /\ nCompared' = 0 /\ nParsed' = 0
  /\ IF PyLen(cmp_sqls) # 2
     THEN /\ pc' = "exc" /\ err' = [kind |-> "AssertionError"]
          /\ issued' = <<>> /\ df1' = <<>> /\ df2' = <<>>
          /\ UNCHANGED <<g_spark, created>>
     ELSE /\ GetSpark
          /\ IF ~r1.ok
             THEN /\ pc' = "exc" /\ err' = [kind |-> r1.exc]
                  /\ issued' = <<"cmp">> /\ df1' = <<>> /\ df2' = <<>>
             ELSE IF ~r2.ok
             THEN /\ pc' = "exc" /\ err' = [kind |-> r2.exc]
                  /\ issued' = <<"cmp", "cmp">> /\ df1' = r1.v /\ df2' = <<>>
             ELSE /\ issued' = <<"cmp", "cmp">> /\ df1' = r1.v /\ df2' = r2.v
                  /\ IF Len(ExceptAll(r1.v, r2.v)) # 0
                     THEN pc' = "exc" /\ err' = [kind |-> "EquivalenceMismatch", side |-> 1]
                     ELSE IF Len(ExceptAll(r2.v, r1.v)) # 0
                     THEN pc' = "exc" /\ err' = [kind |-> "EquivalenceMismatch", side |-> 2]
                     ELSE pc' = "ret" /\ err' = Success

\* ----------------------------------------------------------------- __main__
Results(frames) == {Ok(f) : f \in frames} \cup {Raise("EngineError")}

MainOrder == <<"init", "slt", "verify", "cmp", "verify_slt", "drop", "done">>

NextStep(st) == MainOrder[(CHOOSE i \in 1..Len(MainOrder) : MainOrder[i] = st) + 1]

\* The rest of the state when __main__ passes over a step it does not run.
Skip == UNCHANGED <<g_spark, created, pc, fn, verify_schema, verify_data, df, rows,
                    ri, ci, nCompared, nParsed, df1, df2, issued, err, log>>

Driver == UNCHANGED <<entry, tz, tcase>>

\* Lines 120-137: the test case file is read.
Load ==
  /\ step = "load" /\ pc = "idle"
  /\ tcase' \in TestCases
  /\ step' = "init"
  /\ Skip
  /\ UNCHANGED <<entry, tz>>

\* Line 139
MainInitTable ==
  /\ step = "init" /\ pc = "idle"
  /\ init_iceberg_table(tcase.init_sqls.v)
  /\ UNCHANGED <<step, log>> /\ Driver

\* Lines 140-141
MainSlt ==
  /\ step = "slt" /\ pc = "idle"
  /\ IF Present(tcase.slt)
     THEN execute_slt(tcase.slt, "execute_slt(slt)") /\ UNCHANGED <<step, log>>
     ELSE step' = NextStep(step) /\ Skip
  /\ Driver

\* Lines 142-147
MainVerify ==
  /\ step = "verify" /\ pc = "idle"
  /\ IF Present(tcase.verify_data) /\ Present(tcase.verify_sql) /\ Present(tcase.verify_schema)
     THEN /\ \E result \in Results(MainFrames) :
               verify_result(tcase.verify_schema.v, tcase.verify_data.t, result)
          /\ UNCHANGED <<step, log>>
     ELSE step' = NextStep(step) /\ Skip
  /\ Driver

\* Lines 148-149
MainCompare ==
  /\ step = "cmp" /\ pc = "idle"
  /\ IF Present(tcase.cmp_sqls) /\ PyLen(tcase.cmp_sqls) = 2
     THEN /\ \E r1 \in Results(MainCmpFrames), r2 \in Results(MainCmpFrames) :
               compare_sql(tcase.cmp_sqls, r1, r2)
          /\ UNCHANGED <<step, log>>
     ELSE step' = NextStep(step) /\ Skip
  /\ Driver

\* Lines 150-151
MainVerifySlt ==
  /\ step = "verify_slt" /\ pc = "idle"
  /\ IF Present(tcase.verify_slt)
     THEN execute_slt(tcase.verify_slt, "execute_slt(verify_slt)") /\ UNCHANGED <<step, log>>
     ELSE step' = NextStep(step) /\ Skip
  /\ Driver

\* Lines 152-153
MainDrop ==
  /\ step = "drop" /\ pc = "idle"
  /\ IF Present(tcase.drop_sqls)
     THEN drop_table(tcase.drop_sqls.v) /\ UNCHANGED <<step, log>>
     ELSE step' = NextStep(step) /\ Skip
  /\ Driver

\* ------------------------------------------------- the functions, imported
LibInitTable ==
  /\ entry = "import" /\ pc = "idle"
  /\ \E sqls \in SqlLists : init_iceberg_table(sqls)
  /\ UNCHANGED <<step, log>> /\ Driver

LibExecuteSlt ==
  /\ entry = "import" /\ pc = "idle"
  /\ \E slt \in {None, S(""), S("a.slt")} : execute_slt(slt, "execute_slt(slt)")
  /\ UNCHANGED <<step, log>> /\ Driver

LibVerify ==
  /\ entry = "import" /\ pc = "idle"
  /\ \/ \E inp \in VerifyInputs : verify_result(inp.schema, inp.text, Ok(inp.df))
     \/ verify_result(MainSchema, MainData, Raise("EngineError"))
  /\ UNCHANGED <<step, log>> /\ Driver

LibCompare ==
  /\ entry = "import" /\ pc = "idle"
  /\ \E q \in SeqsUpTo({"sql"}, 3), r1 \in Results(CmpFrames), r2 \in Results(CmpFrames) :
       compare_sql(L(q), r1, r2)
  /\ UNCHANGED <<step, log>> /\ Driver

LibDrop ==
  /\ entry = "import" /\ pc = "idle"
  /\ \E sqls \in SqlLists : drop_table(sqls)
  /\ UNCHANGED <<step, log>> /\ Driver

\* ------------------------------------------------------ the end of a call
LeaveCall ==
  /\ pc' = "idle" /\ fn' = "none" /\ err' = NoErr /\ issued' = <<>>
  /\ ClearLocals
  /\ UNCHANGED <<entry, tz, tcase, g_spark, created>>

\* The call returns; __main__ goes on to its next step.
Return ==
  /\ pc = "ret"
  /\ LeaveCall
  /\ IF entry = "main"
     THEN step' = NextStep(step) /\ log' = Append(log, [fn |-> fn, ok |-> TRUE])
     ELSE UNCHANGED <<step, log>>

\* The exception is swallowed and __main__ goes on (mutation of Propagate).
Propagate_Swallowed ==
  /\ pc = "exc"
  /\ LeaveCall
  /\ IF entry = "main"
     THEN step' = NextStep(step) /\ log' = Append(log, [fn |-> fn, ok |-> FALSE])
     ELSE UNCHANGED <<step, log>>

\* The call raises: __main__ ends with the traceback; an importing caller
\* sees the exception.
Propagate ==
  /\ pc = "exc"
  /\ LeaveCall
  /\ IF entry = "main"
     THEN step' = "failed" /\ log' = Append(log, [fn |-> fn, ok |-> FALSE])
     ELSE UNCHANGED <<step, log>>

Next ==
  \/ Load
  \/ MainInitTable
  \/ MainSlt
  \/ MainVerify
  \/ MainCompare
  \/ MainVerifySlt
  \/ MainDrop
  \/ LibInitTable
  \/ LibExecuteSlt
  \/ LibVerify
  \/ LibCompare
  \/ LibDrop
  \/ VerifyValue
  \/ Return
  \/ Propagate

Spec == Init /\ [][Next]_vars

\* ================================================================== claims
\* A call of verify_result, begun or ended, whose query returned rows.
InVerify == fn = "verify_result" /\ err.kind # "EngineError"
VerifyEnded == InVerify /\ pc \in {"ret", "exc"}

RECURSIVE CountTok(_, _)
CountTok(toks, t) ==
  IF toks = <<>> THEN 0
  ELSE (IF Head(toks) = t THEN 1 ELSE 0) + CountTok(Tail(toks), t)

\* The number of lines of a text: its newlines, and one more for a last
\* line that no newline ends.
LineCount(toks) ==
  IF toks = <<>> THEN 0
  ELSE CountTok(toks, NL) + (IF toks[Len(toks)] = NL THEN 0 ELSE 1)

\* The positions of the dataset, from 0, and their row-major order.
Positions == (0..(Len(df) - 1)) \X (0..(Len(verify_schema) - 1))
Before(p, q) == p[1] < q[1] \/ (p[1] = q[1] /\ p[2] < q[2])

\* What the comparison at position p gives.
At(p) == CompareCell(verify_schema[p[2] + 1], df[p[1] + 1],
                     SplitComma(rows[p[1] + 1]), p[2], tz)
Fails(p) == At(p).kind # "pass"

\* C1: when the number of lines of the expected text differs from the number
\* of actual rows, verify_result fails with a row count mismatch, and no value
\* has been compared and no literal parsed, whatever the schema is.
C1_RowCountFirst ==
  (InVerify /\ Len(df) # LineCount(verify_data)) =>
     /\ pc = "exc"
     /\ err.kind = "RowCountMismatch"
     /\ err.first = Len(df) /\ err.second = LineCount(verify_data)
     /\ nCompared = 0
     /\ nParsed = 0

\* C1's case: a mismatch of the counts although there are rows and columns
\* whose values could have been compared.
C1_Witness ==
  /\ InVerify /\ pc = "exc" /\ err.kind = "RowCountMismatch"
  /\ Len(df) > 0 /\ LineCount(verify_data) > 0 /\ Len(verify_schema) > 0

\* The equality rule of a tag, as the table of the tags states it.
RuleRound5(x) ==
  CHOOSE q \in ((x.n \div 10000) - 1)..((x.n \div 10000) + 1) :
    LET d == 2 * (x.n - q * 10000)    \* twice the distance, signed
    IN  \/ d > -10000 /\ d < 10000
        \/ d = 10000 /\ (x.eps < 0 \/ (x.eps = 0 /\ q % 2 = 0))
        \/ d = -10000 /\ (x.eps > 0 \/ (x.eps = 0 /\ q % 2 = 0))

RuleDecEq(a, d) ==
  LET m == IF a.e < d.e THEN a.e ELSE d.e
  IN  a.c * Pow10(a.e - m) = d.c * Pow10(d.e - m)

RuleEq(ty, a, lit) ==
  CASE ty \in {"int", "long"} ->
         StrToInt(lit).ok /\ a.k = "int" /\ a.v = StrToInt(lit).v.v
    [] ty \in {"float", "double"} ->
         StrToFloat(lit).ok /\ a.k = "float"
         /\ RuleRound5(a) = RuleRound5(StrToFloat(lit).v)
    [] ty = "boolean" -> a.k = "bool" /\ a.v = (Lower(lit) = "true")
    [] ty = "date" -> FromIsoDate(lit).ok /\ a = FromIsoDate(lit).v
    [] ty = "timestamp" ->
         \* the literal read as UTC, the zone-aware actual value taken to UTC
         /\ FromIsoDatetime(lit).ok /\ a.k = "dt" /\ a.aware
         /\ a.wall - a.off = FromIsoDatetime(lit).v.wall - FromIsoDatetime(lit).v.off
    [] ty = "timestamp_ntz" ->
         /\ FromIsoDatetime(lit).ok /\ a.k = "dt" /\ ~a.aware
         /\ ~FromIsoDatetime(lit).v.aware /\ a.wall = FromIsoDatetime(lit).v.wall
    [] ty = "string" -> a.k = "str" /\ a.v = lit
    [] ty = "decimal" ->
         IF lit = "none" THEN a.k = "null"
         ELSE StrToDecimal(lit).ok /\ a.k = "dec" /\ RuleDecEq(a, StrToDecimal(lit).v)
    [] OTHER -> FALSE

\* Every value of the dataset equals its literal under its tag's rule.
AllEqualByRule ==
  \A p \in Positions :
    /\ p[2] < Len(df[p[1] + 1])
    /\ p[2] < Len(SplitComma(rows[p[1] + 1]))
    /\ RuleEq(verify_schema[p[2] + 1], df[p[1] + 1][p[2] + 1],
              SplitComma(rows[p[1] + 1])[p[2] + 1])

SchemaSupported == \A j \in 1..Len(verify_schema) : verify_schema[j] \in Tags

\* C2: with equal row counts, a schema of supported tags and every value
\* equal to its literal under its tag's rule, verify_result returns success.
C2_EqualSucceeds ==
  (VerifyEnded /\ SchemaSupported /\ Len(df) = LineCount(verify_data) /\ AllEqualByRule)
    => pc = "ret"

\* C3: with equal row counts, if the comparison fails at some position then
\* verify_result fails at the first such position in row-major order, with
\* that comparison's two values, and has compared nothing after it; if it
\* fails nowhere verify_result succeeds.  In the example the failure is at
\* row 1, column 0, expected 2, actual 3, after three comparisons.
C3_FirstFailure ==
  /\ (VerifyEnded /\ err.kind # "RowCountMismatch") =>
       IF \E p \in Positions : Fails(p)
       THEN /\ pc = "exc"
            /\ <<err.row, err.col>> \in Positions
            /\ Fails(<<err.row, err.col>>)
            /\ \A p \in Positions : Before(p, <<err.row, err.col>>) => ~Fails(p)
            /\ err.kind = At(<<err.row, err.col>>).kind
            /\ err.first = At(<<err.row, err.col>>).first
            /\ err.second = At(<<err.row, err.col>>).second
            /\ nCompared = err.row * Len(verify_schema) + err.col
                           + (IF At(<<err.row, err.col>>).compared THEN 1 ELSE 0)
       ELSE pc = "ret" /\ nCompared = Len(df) * Len(verify_schema)
  /\ (VerifyEnded /\ verify_schema = MainSchema /\ verify_data = MainData
      /\ df = << <<I(1), S("foo")>>, <<I(3), S("bar")>> >>) =>
       /\ pc = "exc" /\ err.kind = "ValueMismatch"
       /\ err.row = 1 /\ err.col = 0
       /\ err.first = I(3) /\ err.second = I(2)
       /\ nCompared = 3

\* C3's case: a failure at a position that failing positions follow.
C3_Witness ==
  /\ VerifyEnded /\ pc = "exc" /\ err.kind = "ValueMismatch"
  /\ err.row = 1 /\ err.col = 0 /\ Len(verify_schema) = 2
  /\ Fails(<<1, 1>>)

\* The first column, from 0, whose tag is not supported.
HasUnsupported == \E j \in 1..Len(verify_schema) : verify_schema[j] \notin Tags
FirstUnsupported ==
  (CHOOSE j \in 1..Len(verify_schema) :
     /\ verify_schema[j] \notin Tags
     /\ \A i \in 1..(j - 1) : verify_schema[i] \in Tags) - 1

\* C4 as stated: a schema with an unsupported tag makes verify_result fail
\* with UnsupportedType naming the tag, whatever the rows are.
C4_AlwaysUnsupported ==
  (VerifyEnded /\ err.kind # "RowCountMismatch" /\ HasUnsupported) =>
     /\ pc = "exc" /\ err.kind = "UnsupportedType"
     /\ err.tag \notin Tags

\* C4 amended: with equal row counts and an unsupported tag in the schema,
\* verify_result fails with UnsupportedType naming the first such tag iff
\* there is a row and every column before that tag's passes in row 0; with
\* no rows it succeeds, and otherwise it fails at an earlier column of row 0
\* with that column's failure.
C4_UnsupportedWhenReached ==
  (VerifyEnded /\ err.kind # "RowCountMismatch" /\ HasUnsupported) =>
     IF Len(df) = 0 THEN pc = "ret"
     ELSE IF \A j \in 0..(FirstUnsupported - 1) : ~Fails(<<0, j>>)
     THEN /\ pc = "exc" /\ err.kind = "UnsupportedType"
          /\ err.tag = verify_schema[FirstUnsupported + 1]
          /\ err.row = 0 /\ err.col = FirstUnsupported
     ELSE /\ pc = "exc" /\ err.kind # "UnsupportedType"
          /\ err.row = 0 /\ err.col < FirstUnsupported

\* C4's case: the unsupported tag is reached after a column that passed.
C4_Witness ==
  /\ VerifyEnded /\ pc = "exc" /\ err.kind = "UnsupportedType"
  /\ err.col = 1 /\ err.tag = BadTag

\* A call of verify_result ended on one row of one column of tag ty.
OneCell(ty) ==
  /\ VerifyEnded /\ verify_schema = <<ty>>
  /\ Len(df) = 1 /\ Len(df[1]) = 1
  /\ Len(rows) = 1 /\ Len(SplitComma(rows[1])) = 1
TheActual == df[1][1]
TheLiteral == SplitComma(rows[1])[1]

AsDec(a) == IF a.k = "int" THEN Dec(a.v, 0) ELSE a

\* C5: on a decimal column the literal "none" passes iff the actual value is
\* null; any other literal passes iff it parses as a decimal and the actual
\* value is a number equal to it (10.00 equals "10.0"; null and 0 differ
\* from every number and from "none" respectively).
C5_Decimal ==
  OneCell("decimal") =>
    /\ IF TheLiteral = "none" THEN pc = "ret" <=> TheActual.k = "null"
       ELSE pc = "ret" <=> /\ StrToDecimal(TheLiteral).ok
                           /\ TheActual.k \in {"dec", "int"}
                           /\ RuleDecEq(AsDec(TheActual), StrToDecimal(TheLiteral).v)
    /\ (TheActual = Dec(1000, -2) /\ TheLiteral = "10.0") => pc = "ret"
    /\ (TheActual = None /\ TheLiteral = "none") => pc = "ret"
    /\ (TheActual = I(0) /\ TheLiteral = "none") => pc = "exc" /\ err.kind = "ValueMismatch"
    /\ (TheActual = None /\ TheLiteral = "10.0") => pc = "exc" /\ err.kind = "ValueMismatch"

\* C5's case: 10.00 has been compared with the literal "10.0".
C5_Witness ==
  /\ OneCell("decimal") /\ TheActual = Dec(1000, -2) /\ TheLiteral = "10.0"
  /\ pc = "ret" /\ nCompared = 1

\* On a float or double column, a float against a literal that parses: the
\* comparison passes iff the two round to the same multiple of 10^-5.
C6_Rule ==
  \A ty \in {"float", "double"} :
    (OneCell(ty) /\ TheActual.k = "float") =>
      IF StrToFloat(TheLiteral).ok
      THEN pc = "ret" <=> RuleRound5(TheActual) = RuleRound5(StrToFloat(TheLiteral).v)
      ELSE pc = "exc"

IsC6Example ==
  /\ \E ty \in {"float", "double"} : OneCell(ty)
  /\ TheActual = F(1000004999, -1) /\ TheLiteral = "1.000005"

\* C6 as stated: the rule of C6_Rule, and actual 1.000004999 equal to the
\* literal "1.000005".
C6_ExampleEqual == C6_Rule /\ (IsC6Example => pc = "ret")

\* C6 amended: the rule of C6_Rule; actual 1.000004999 rounds to 1.00000 and
\* the literal "1.000005" to 1.00001, so the two are unequal, while actual
\* 1.000004999 and the literal "1.000001" are equal.
C6_RoundedEquality ==
  /\ C6_Rule
  /\ IsC6Example =>
       /\ pc = "exc" /\ err.kind = "ValueMismatch"
       /\ err.first = F(1000000000, 0) /\ err.second.n = 1000010000
  /\ \A ty \in {"float", "double"} :
       (OneCell(ty) /\ TheActual = F(1000004999, -1) /\ TheLiteral = "1.000001")
         => pc = "ret"

\* C6's case: the example's two values have been compared.
C6_Witness == IsC6Example /\ nCompared = 1 /\ nParsed = 1

\* C7: on a timestamp column a literal without zone is read as UTC whatever
\* the process's zone, so a zone-aware actual value passes iff its UTC wall
\* clock is the literal's; on a timestamp_ntz column a zone-less actual value
\* passes iff its wall clock is the literal's.
C7_LiteralIsUtc ==
  /\ (/\ OneCell("timestamp") /\ FromIsoDatetime(TheLiteral).ok
      /\ ~FromIsoDatetime(TheLiteral).v.aware
      /\ TheActual.k = "dt" /\ TheActual.aware) =>
       (pc = "ret" <=> TheActual.wall - TheActual.off = FromIsoDatetime(TheLiteral).v.wall)
  /\ (/\ OneCell("timestamp_ntz") /\ FromIsoDatetime(TheLiteral).ok
      /\ ~FromIsoDatetime(TheLiteral).v.aware
      /\ TheActual.k = "dt" /\ ~TheActual.aware) =>
       (pc = "ret" <=> TheActual.wall = FromIsoDatetime(TheLiteral).v.wall)

\* A call of compare_sql ended, both queries having returned rows.
CompareEnded ==
  /\ fn = "compare_sql" /\ pc \in {"ret", "exc"}
  /\ err.kind \notin {"EngineError", "AssertionError"}

SameMultiset(a, b) ==
  \A i \in 1..Len(a \o b) : CountTok(a, (a \o b)[i]) = CountTok(b, (a \o b)[i])

\* C8: compare_sql succeeds iff the two result sets hold the same rows the
\* same number of times, in whatever order; two rows ("a", 1) against one
\* fail.
C8_MultisetEquality ==
  CompareEnded =>
    /\ pc = "ret" <=> SameMultiset(df1, df2)
    /\ pc = "ret" <=> SameMultiset(df2, df1)
    /\ (CountTok(df1, <<S("a"), I(1)>>) = 2 /\ CountTok(df2, <<S("a"), I(1)>>) = 1)
         => pc = "exc" /\ err.kind = "EquivalenceMismatch"

\* C8's case: the same rows, one of them once more on one side.
C8_Witness ==
  /\ CompareEnded /\ pc = "exc"
  /\ df1 = << <<S("a"), I(1)>>, <<S("a"), I(1)>> >>
  /\ df2 = << <<S("a"), I(1)>> >>

SessionUsers == {"init_iceberg_table", "verify_result", "compare_sql", "drop_table"}

\* C9: the session is created at most once, by the first call that needs
\* one, and once g_spark is set no step changes it.
C9_SessionOnce ==
  [][/\ g_spark # 0 => g_spark' = g_spark
     /\ created' <= 1
     /\ (pc = "idle" /\ pc' # "idle" /\ fn' \in SessionUsers /\ err'.kind # "AssertionError")
          => g_spark' # 0 /\ g_spark' = created']_vars

\* C9's case: a later call has run on the session an earlier call created.
C9_Witness ==
  /\ entry = "main" /\ fn = "drop_table" /\ pc = "ret"
  /\ Len(log) >= 2 /\ g_spark = 1 /\ created = 1

\* The steps of __main__ in their order, and what enables each.
MainCalls == <<"init_iceberg_table", "execute_slt(slt)", "verify_result",
               "compare_sql", "execute_slt(verify_slt)", "drop_table">>
Ord(f) == CHOOSE i \in 1..Len(MainCalls) : MainCalls[i] = f

Enabled(f) ==
  CASE f = "init_iceberg_table" -> TRUE
    [] f = "execute_slt(slt)" -> Present(tcase.slt)
    [] f = "verify_result" ->
         Present(tcase.verify_data) /\ Present(tcase.verify_sql)
         /\ Present(tcase.verify_schema)
    [] f = "compare_sql" -> Present(tcase.cmp_sqls) /\ PyLen(tcase.cmp_sqls) = 2
    [] f = "execute_slt(verify_slt)" -> Present(tcase.verify_slt)
    [] f = "drop_table" -> Present(tcase.drop_sqls)

\* The calls __main__ has made, the one under way last.
Calls == [i \in 1..Len(log) |-> log[i].fn] \o (IF pc = "idle" THEN <<>> ELSE <<fn>>)

\* The order of __main__ and its end at the first failure.
MainPipeline ==
  (entry = "main" /\ step # "load") =>
     /\ \A i, j \in 1..Len(Calls) : i < j => Ord(Calls[i]) < Ord(Calls[j])
     /\ \A i \in 1..Len(Calls) :
          /\ Enabled(Calls[i])
          /\ \A f \in 1..(Ord(Calls[i]) - 1) :
               Enabled(MainCalls[f]) => \E k \in 1..(i - 1) : Calls[k] = MainCalls[f]
     /\ \A i \in 1..Len(log) : ~log[i].ok => (i = Len(log) /\ step = "failed" /\ pc = "idle")
     /\ step = "failed" => (Len(log) > 0 /\ ~log[Len(log)].ok)
     /\ step = "done" =>
          \A f \in 1..Len(MainCalls) :
            Enabled(MainCalls[f]) => \E k \in 1..Len(log) : log[k].fn = MainCalls[f]
     /\ (\E i \in 1..Len(issued) : issued[i] = "drop") =>
          (fn = "drop_table" /\ \A i \in 1..Len(log) : log[i].ok)

\* x is given and has content: no None, no empty string, no empty list.
NonEmpty(x) == Present(x) /\ PyLen(x) > 0

\* C10 as stated: the order of MainPipeline, each optional step run only on
\* non-empty inputs.
C10_NonEmptyInputs ==
  /\ MainPipeline
  /\ (entry = "main" /\ fn = "verify_result") =>
       /\ NonEmpty(tcase.verify_data) /\ NonEmpty(tcase.verify_sql)
       /\ NonEmpty(tcase.verify_schema)
  /\ (entry = "main" /\ fn = "drop_table") => NonEmpty(tcase.drop_sqls)

\* C10 amended: the steps run in the fixed order, each only when its inputs
\* are neither None nor the empty string (an empty list counts as given:
\* verify_result runs on an empty verify_schema, drop_table on an empty
\* drop_sqls), after every earlier enabled step has returned; the first
\* failure ends __main__, so no drop statement is sent after a failed
\* step and nothing runs twice.
C10_Pipeline ==
  /\ MainPipeline
  /\ (entry = "main" /\ fn = "verify_result") =>
       /\ NonEmpty(tcase.verify_data) /\ NonEmpty(tcase.verify_sql)
       /\ tcase.verify_schema.k = "list"
  /\ (entry = "main" /\ fn = "compare_sql") => PyLen(tcase.cmp_sqls) = 2
  /\ (entry = "main" /\ fn = "drop_table") => tcase.drop_sqls.k = "list"

\* C10's case: verify_result failed with drop statements still to run.
C10_Witness ==
  /\ entry = "main" /\ step = "failed"
  /\ log[Len(log)].fn = "verify_result"
  /\ NonEmpty(tcase.drop_sqls)
  /\ \E i \in 1..Len(log) : log[i].fn = "execute_slt(slt)"

====
